---- MODULE Spec2Model ----
(***************************************************************************)
(* Movie recommendation system: the popularity scorer, the content         *)
(* similarity engine, the artifact files written by the training pipeline  *)
(* and the FastAPI serving layer (module globals, lifespan, handlers).     *)
(*                                                                         *)
(* Numbers.  Scores are floats in the code; here they are exact rationals  *)
(* [num, den] in lowest terms, so equal scores are equal records.  Rows of *)
(* the TF-IDF matrix are l2-normalised by the vectorizer; here they are    *)
(* integer vectors of equal integral length (or zero rows), so a cosine is *)
(* a rational.                                                             *)
(***************************************************************************)
EXTENDS Integers, Sequences, FiniteSets, TLC

VARIABLES
    ratings,        \* the ratings table the pipeline trains on (rows movieId, rating)
    movies,         \* the catalog table (rows movieId, title, genres, tfidf row)
    tieRank,        \* how this build's unstable argsort orders equal keys
    popFile,        \* artifacts/<run>/models/popularity.joblib
    contentFile,    \* artifacts/<run>/models/content_tfidf.joblib
    trainPc,        \* position of the training pipeline in its export section
    up,             \* the service process has run its lifespan startup
    POP_MODEL,
    CONTENT_MODEL,
    MOVIES_LOOKUP,
    MODELS_LOADED,
    pc,             \* per worker thread: position inside similar_items
    req,            \* per worker thread: the request being handled
    contentLoads,   \* ContentTfidfModel.load + assignment executed in this lifetime
    last,           \* the most recent HTTP exchange (request and response)
    model,          \* pure-function specifications: the model under test
    out,            \* pure-function specifications: the last call and its result
    runOf           \* which training run wrote each artifact and each loaded model

vars == << ratings, movies, tieRank, popFile, contentFile, trainPc, up,
           POP_MODEL, CONTENT_MODEL, MOVIES_LOOKUP, MODELS_LOADED,
           pc, req, contentLoads, last, model, out, runOf >>

None == [none |-> TRUE]

\* ------------------------------------------------------------------ bounds

MaxK == 3
MaxRatings == 3
\* training runs started after the initial state (each one re-uses the run
\* directory of the service's run id)
MaxTrainRuns == 1
MovieIds == {1, 2, 3}
RatingValues == {2, 5}
UserIds == {1, 2}

\* ---------------------------------------------------------------- numbers

Abs(n) == IF n < 0 THEN -n ELSE n

RECURSIVE Gcd(_, _)
Gcd(a, b) == IF b = 0 THEN a ELSE Gcd(b, a % b)

\* A float as an exact rational in lowest terms with a positive denominator.
Rat(n, d) ==
    LET s == IF d < 0 THEN -1 ELSE 1
        g == Gcd(Abs(n), Abs(d))
    IN  [num |-> (s * n) \div g, den |-> (s * d) \div g]

FromInt(n) == [num |-> n, den |-> 1]
RAdd(a, b) == Rat(a.num * b.den + b.num * a.den, a.den * b.den)
RMul(a, b) == Rat(a.num * b.num, a.den * b.den)
RDiv(a, b) == Rat(a.num * b.den, a.den * b.num)
RLess(a, b) == a.num * b.den < b.num * a.den
RECURSIVE SumSeq(_)
SumSeq(s) == IF s = << >> THEN 0 ELSE Head(s) + SumSeq(Tail(s))

RECURSIVE RSumSeq(_)
RSumSeq(s) == IF s = << >> THEN FromInt(0) ELSE RAdd(Head(s), RSumSeq(Tail(s)))

Range(s) == {s[i] : i \in DOMAIN s}

\* s[:k] for k >= 0
Prefix(s, k) == SubSeq(s, 1, IF k < Len(s) THEN k ELSE Len(s))

RECURSIVE SelectSeqBy(_, _)
\* the sub-sequence of s at the ascending positions in the set idx
SelectSeqBy(s, idx) ==
    IF s = << >> THEN << >>
    ELSE LET rest == SelectSeqBy(SubSeq(s, 1, Len(s) - 1), idx)
         IN  IF Len(s) \in idx THEN Append(rest, s[Len(s)]) ELSE rest

\* ------------------------------------------------------------------ sorting

Perms(n) == {p \in [1..n -> 1..n] : \A i, j \in 1..n : p[i] = p[j] => i = j}

\* Positions of keys in descending key order.  numpy's default argsort kind
\* (quicksort) is not stable: equal keys come out in an order the build
\* decides, here by rank[position].
ArgSortDesc(keys, rank) ==
    LET n == Len(keys)
        Before(i, j) == \/ RLess(keys[j], keys[i])
                        \/ keys[i] = keys[j] /\ rank[i] < rank[j]
        Place(i) == 1 + Cardinality({j \in 1..n : Before(j, i)})
    IN  [r \in 1..n |-> CHOOSE i \in 1..n : Place(i) = r]

\* -------------------------------------------------------------- models/base

Rec(movie_id, score) == [movie_id |-> movie_id, score |-> score]

\* -------------------------------------------------------- models/popularity

ShrinkageM == 50

\* ratings.groupby("movieId")["rating"].agg(["mean", "count"]).reset_index():
\* one row per movieId that occurs, in ascending movieId order.
GroupByMovie(rs) ==
    LET ids == {rs[i].movieId : i \in DOMAIN rs}
        n == Cardinality(ids)
        IdAt(r) == CHOOSE m \in ids : Cardinality({x \in ids : x < m}) = r - 1
        Rows(m) == {i \in DOMAIN rs : rs[i].movieId = m}
        Sum(m) == SumSeq([i \in 1..Len(rs) |-> IF i \in Rows(m) THEN rs[i].rating ELSE 0])
    IN  [r \in 1..n |->
            [movieId |-> IdAt(r),
             mean |-> Rat(Sum(IdAt(r)), Cardinality(Rows(IdAt(r)))),
             count |-> Cardinality(Rows(IdAt(r)))]]

GlobalMean(rs) == Rat(SumSeq([i \in 1..Len(rs) |-> rs[i].rating]), Len(rs))

\* the score with the division applied to the prior term only
ShrunkScoreUnparenthesised(count, mean, global_mean) ==
    RAdd(RMul(FromInt(count), mean),
         RDiv(RMul(FromInt(ShrinkageM), global_mean), FromInt(count + ShrinkageM)))

ShrunkScore(count, mean, global_mean) ==
    RDiv(RAdd(RMul(FromInt(count), mean), RMul(FromInt(ShrinkageM), global_mean)),
         FromInt(count + ShrinkageM))

PopularityRecommender(ranked) == [ranked |-> ranked]

\* PopularityRecommender.train
PopularityTrain(rs, rank) ==
    LET grouped == GroupByMovie(rs)
        global_mean == GlobalMean(rs)
        score == [i \in 1..Len(grouped) |->
                    ShrunkScore(grouped[i].count, grouped[i].mean, global_mean)]
        order == ArgSortDesc(score, rank)
    IN  PopularityRecommender(
            [r \in 1..Len(grouped) |-> Rec(grouped[order[r]].movieId, score[order[r]])])

\* recommend as two slips would have it: one entry short; filtered by the caller
PopularityRecommendOffByOne(self, user_id, k) == Prefix(self.ranked, k - 1)

PopularityRecommendPerUser(self, user_id, k) ==
    Prefix(SelectSeqBy(self.ranked,
                       {i \in DOMAIN self.ranked : self.ranked[i].movie_id # user_id}), k)

\* recommend without its slice: the whole ranked list
PopularityRecommendUnsliced(self, user_id, k) == self.ranked

\* PopularityRecommender.recommend
PopularityRecommend(self, user_id, k) == Prefix(self.ranked, k)

\* ----------------------------------------------------- models/content_tfidf

\* Rows the vectorizer can produce in this model: TfidfVectorizer's default
\* norm is l2, so every row has the same length (5 here) or is all zero.
UnitRows == { <<5, 0>>, <<0, 5>>, <<3, 4>>, <<0, 0>> }

Dot(a, b) == SumSeq([i \in 1..Len(a) |-> a[i] * b[i]])
Isqrt(n) == CHOOSE r \in 0..n : r * r = n

\* sklearn cosine_similarity of two rows: both are normalised first (a zero
\* row stays zero), then multiplied.
Cosine(a, b) ==
    IF Dot(a, a) = 0 \/ Dot(b, b) = 0 THEN FromInt(0)
    ELSE Rat(Dot(a, b), Isqrt(Dot(a, a)) * Isqrt(Dot(b, b)))

ContentModel(ids, matrix) == [movie_ids |-> ids, tfidf_matrix |-> matrix]

\* ContentTfidfModel.train: one row per catalog row, in catalog order.  The
\* fitted vectorizer's output for a row's text is the row's "tfidf" field.
ContentTrain(mv) ==
    ContentModel([i \in 1..Len(mv) |-> mv[i].movieId], [i \in 1..Len(mv) |-> mv[i].tfidf])

\* ContentTfidfModel.similar_items
ContentSimilarItems(self, movie_id, k) ==
    LET n == Len(self.movie_ids)
        idx == {p \in 1..n : self.movie_ids[p] = movie_id}
    IN  IF idx = {} THEN << >>
        ELSE LET i == CHOOSE p \in idx : \A q \in idx : p <= q
                 sims == [j \in 1..n |->
                            IF j = i THEN FromInt(-1)
                            ELSE Cosine(self.tfidf_matrix[i], self.tfidf_matrix[j])]
                 top_idx == Prefix(ArgSortDesc(sims, tieRank), k)
             IN  [r \in 1..Len(top_idx) |->
                    Rec(self.movie_ids[top_idx[r]], sims[top_idx[r]])]

\* ContentTfidfModel.recommend: catalog centrality, user_id unused.
ContentRecommend(self, user_id, k) ==
    LET n == Len(self.movie_ids)
        sims == [i \in 1..n |-> [j \in 1..n |->
                    IF i = j THEN FromInt(0)
                    ELSE Cosine(self.tfidf_matrix[i], self.tfidf_matrix[j])]]
        centrality == [i \in 1..n |-> RDiv(RSumSeq(sims[i]), FromInt(n))]
        top_idx == Prefix(ArgSortDesc(centrality, tieRank), k)
    IN  [r \in 1..Len(top_idx) |->
            Rec(self.movie_ids[top_idx[r]], centrality[top_idx[r]])]

\* ------------------------------------------------- service state at import

Threads == {"w1", "w2"}

Absent == [state |-> "absent"]
Corrupt == [state |-> "corrupt"]
Stored(obj) == [state |-> "ok", obj |-> obj]

\* Run numbers: training runs are numbered in the order they start, 0 is the
\* run that produced whatever the run directory holds at the start, and -1
\* stands for "nothing loaded".
NoRuns == [train |-> 0, popFile |-> 0, contentFile |-> 0,
           POP_MODEL |-> -1, CONTENT_MODEL |-> -1]

\* api.py module level: nothing loaded, no request handled.
ServiceImported ==
    /\ up = FALSE
    /\ POP_MODEL = None
    /\ CONTENT_MODEL = None
    /\ MOVIES_LOOKUP = << >>
    /\ MODELS_LOADED = FALSE
    /\ pc = [t \in Threads |-> "idle"]
    /\ req = [t \in Threads |-> None]
    /\ contentLoads = 0
    /\ last = None

svcVars == << popFile, contentFile, trainPc, up, POP_MODEL, CONTENT_MODEL,
              MOVIES_LOOKUP, MODELS_LOADED, pc, req, contentLoads, last, runOf >>

\* k as the model methods are called with it (the API allows 1..50)
Ks == 1..MaxK

\* ------------------------------------------------------------------- text

\* Text is a sequence of one-character strings.
Lower(c) == CASE c = "A" -> "a" [] c = "B" -> "b" [] OTHER -> c
Casefold(s) == [i \in DOMAIN s |-> Lower(s[i])]

RECURSIVE LStrip(_)
LStrip(s) == IF s # << >> /\ Head(s) = " " THEN LStrip(Tail(s)) ELSE s

RECURSIVE RStrip(_)
RStrip(s) == IF s # << >> /\ s[Len(s)] = " " THEN RStrip(SubSeq(s, 1, Len(s) - 1)) ELSE s

Strip(s) == RStrip(LStrip(s))

\* Python's `sub in s`
Contains(sub, s) ==
    \E i \in 0..(Len(s) - Len(sub)) : SubSeq(s, i + 1, i + Len(sub)) = sub

\* -------------------------------------------------- serving/movies_lookup

\* load_movies_lookup: movie_id -> {title, genres}, a dict in csv row order
\* (a sequence of entries here; a repeated id overwrites in place).
RECURSIVE LoadMoviesLookup(_)
LoadMoviesLookup(mv) ==
    IF mv = << >> THEN << >>
    ELSE LET before == LoadMoviesLookup(SubSeq(mv, 1, Len(mv) - 1))
             row == mv[Len(mv)]
             entry == [movie_id |-> row.movieId, title |-> Strip(row.title),
                       genres |-> Strip(row.genres)]
             at == {i \in DOMAIN before : before[i].movie_id = row.movieId}
         IN  IF at = {} THEN Append(before, entry)
             ELSE [i \in DOMAIN before |-> IF i \in at THEN entry ELSE before[i]]

\* A Python str where None is possible too: None, or Str(text)
Str(s) == [str |-> s]

\* MOVIES_LOOKUP.get(movie_id, {}), then .get("title") and .get("genres")
LookupGet(movie_id) ==
    LET at == {i \in DOMAIN MOVIES_LOOKUP : MOVIES_LOOKUP[i].movie_id = movie_id}
    IN  IF at = {} THEN [title |-> None, genres |-> None]
        ELSE LET e == MOVIES_LOOKUP[CHOOSE i \in at : TRUE]
             IN  [title |-> Str(e.title), genres |-> Str(e.genres)]

\* ---------------------------------------------------------- serving/api

\* _clean_text
CleanText(v) ==
    IF v = None THEN None
    ELSE IF Strip(v.str) = << >> THEN None ELSE Str(Strip(v.str))

\* _enrich
Enrich(movie_id) ==
    [title |-> CleanText(LookupGet(movie_id).title),
     genres |-> CleanText(LookupGet(movie_id).genres)]

\* _movie_record
MovieRecord(movie_id) ==
    [movie_id |-> movie_id,
     title |-> CleanText(LookupGet(movie_id).title),
     genres |-> CleanText(LookupGet(movie_id).genres)]

\* _ensure_loaded passes (it raises 503 otherwise)
EnsureLoaded == ~(~MODELS_LOADED \/ POP_MODEL = None)

\* Python values as the duck-typed normalisation meets them.  A Rec object is
\* the record Rec(movie_id, score) with an int and a float in it; every other
\* value carries its type: int, float, str, None, dict, tuple, list.
PyInt(n) == [py |-> "int", int |-> n]
PyFloat(x) == [py |-> "float", float |-> x]
PyStr(t) == [py |-> "str", str |-> t]
PyDict(d) == [py |-> "dict", d |-> d]
PyTuple(elems) == [py |-> "tuple", elems |-> elems]
PyList(items) == [py |-> "list", items |-> items]

IsPy(v, type) == "py" \in DOMAIN v /\ v.py = type
DictGet(v, key) == IF key \in DOMAIN v.d THEN v.d[key] ELSE None

\* bool(v), as the `or` chain tests it
Truthy(v) ==
    IF v = None THEN FALSE
    ELSE IF v.py = "int" THEN v.int # 0
    ELSE IF v.py = "float" THEN v.float.num # 0
    ELSE v.str # ""

Returns(v) == [raised |-> FALSE, v |-> v]
Raises(exc) == [raised |-> TRUE, exc |-> exc]

\* the decimal literals int() and float() accept among the strings used here
IntText == ("1" :> 1) @@ ("2" :> 2)

\* int(v): truncation toward zero for a float, parsing for a string
PyIntOf(v) ==
    IF v = None THEN Raises("TypeError")
    ELSE IF v.py = "int" THEN Returns(v.int)
    ELSE IF v.py = "float"
         THEN Returns(IF v.float.num >= 0 THEN v.float.num \div v.float.den
                      ELSE -((-v.float.num) \div v.float.den))
    ELSE IF v.py = "str"
         THEN IF v.str \in DOMAIN IntText THEN Returns(IntText[v.str])
              ELSE Raises("ValueError")
    ELSE Raises("TypeError")

\* float(v)
PyFloatOf(v) ==
    IF v = None THEN Raises("TypeError")
    ELSE IF v.py = "int" THEN Returns(FromInt(v.int))
    ELSE IF v.py = "float" THEN Returns(v.float)
    ELSE IF v.py = "str"
         THEN IF v.str \in DOMAIN IntText THEN Returns(FromInt(IntText[v.str]))
              ELSE Raises("ValueError")
    ELSE Raises("TypeError")

\* _normalize_list
NormalizeList(raw, list_key) ==
    IF IsPy(raw, "dict") /\ list_key \in DOMAIN raw.d /\ IsPy(raw.d[list_key], "list")
    THEN raw.d[list_key].items
    ELSE IF IsPy(raw, "list") THEN raw.items
    ELSE << >>

\* What _item_to_mid_score returns: (mid, score), score None when there is none
MidScore(mid, score) == [raised |-> FALSE, mid |-> mid, score |-> score]

\* _item_to_mid_score: a dict, a Rec-style object, or something indexable; the
\* result is MidScore(..) or the exception that leaves the function.
ItemToMidScore(item) ==
    IF IsPy(item, "dict")
    THEN LET v == IF Truthy(DictGet(item, "movie_id")) THEN DictGet(item, "movie_id")
                  ELSE IF Truthy(DictGet(item, "movieId")) THEN DictGet(item, "movieId")
                  ELSE IF Truthy(DictGet(item, "id")) THEN DictGet(item, "id")
                  ELSE IF Truthy(DictGet(item, "item")) THEN DictGet(item, "item")
                  ELSE PyInt(0)
             mid == PyIntOf(v)
             score == DictGet(item, "score")
         IN  IF mid.raised THEN mid
             ELSE IF score = None THEN MidScore(mid.v, None)
             ELSE IF PyFloatOf(score).raised THEN PyFloatOf(score)
             ELSE MidScore(mid.v, PyFloatOf(score).v)
    ELSE IF "movie_id" \in DOMAIN item /\ "score" \in DOMAIN item
    THEN MidScore(item.movie_id, item.score)
    ELSE \* try: item[0], item[1]; IndexError, TypeError and KeyError give (0, None)
         IF ~IsPy(item, "tuple") THEN MidScore(0, None)
         ELSE IF Len(item.elems) = 0 THEN MidScore(0, None)
         ELSE LET mid == PyIntOf(item.elems[1])
              IN  IF mid.raised
                  THEN IF mid.exc = "TypeError" THEN MidScore(0, None) ELSE mid
                  ELSE IF Len(item.elems) > 1 /\ item.elems[2] # None
                  THEN LET score == PyFloatOf(item.elems[2])
                       IN  IF score.raised
                           THEN IF score.exc = "TypeError" THEN MidScore(0, None) ELSE score
                           ELSE MidScore(mid.v, score.v)
                  ELSE MidScore(mid.v, None)

\* the exception, if any, that leaves the loop over the items ("" if none)
RECURSIVE LoopRaises(_)
LoopRaises(items) ==
    IF items = << >> THEN ""
    ELSE IF ItemToMidScore(Head(items)).raised THEN ItemToMidScore(Head(items)).exc
    ELSE LoopRaises(Tail(items))

\* the loop that builds the response list from the model's items, when no
\* exception leaves it
RECURSIVE EnrichItems(_)
EnrichItems(items) ==
    IF items = << >> THEN << >>
    ELSE LET ms == ItemToMidScore(Head(items))
             rest == EnrichItems(Tail(items))
         IN  IF ms.mid <= 0 THEN rest
             ELSE << [movie_id |-> ms.mid, title |-> Enrich(ms.mid).title,
                      genres |-> Enrich(ms.mid).genres]
                     @@ (IF ms.score = None THEN << >> ELSE [score |-> ms.score]) >> \o rest

HttpError(status, detail) == [status |-> status, calls |-> {}, detail |-> detail]

\* an exception that no handler catches: the server answers 500
Unhandled(calls) == [status |-> 500, calls |-> calls, detail |-> "Internal Server Error"]

\* the items of a /v1/recommendations and of a /v1/similar-items model output
RecommendationItems(raw) == NormalizeList(raw, "recommendations")

SimilarItems(raw) ==
    IF NormalizeList(raw, "similar_items") # << >> THEN NormalizeList(raw, "similar_items")
    ELSE IF NormalizeList(raw, "recommendations") # << >>
    THEN NormalizeList(raw, "recommendations")
    ELSE IF NormalizeList(raw, "items") # << >> THEN NormalizeList(raw, "items")
    ELSE IF NormalizeList(raw, "results") # << >> THEN NormalizeList(raw, "results")
    ELSE IF IsPy(raw, "list") THEN raw.items ELSE << >>

\* ContentTfidfModel.save / load: the dict joblib stores, and the model back
ContentSave(self) == [movie_ids |-> self.movie_ids, tfidf_matrix |-> self.tfidf_matrix]
ContentLoad(obj) == ContentModel(obj.movie_ids, obj.tfidf_matrix)

\* ----------------------------------------------------- pipelines/train

dataVars == << ratings, movies, tieRank >>
liveVars == << up, POP_MODEL, CONTENT_MODEL, MOVIES_LOOKUP, MODELS_LOADED,
               pc, req, contentLoads >>

\* dump(popularity, models_dir / "popularity.joblib"): the file is opened for
\* writing (truncated) and is a complete pickle only once dump returns.
TrainOpenPop ==
    /\ trainPc = "idle"
    /\ runOf.train < MaxTrainRuns
    /\ trainPc' = "pop_open"
    /\ popFile' = [state |-> "partial"]
    /\ runOf' = [runOf EXCEPT !.train = @ + 1]
    /\ last' = None
    /\ UNCHANGED << dataVars, contentFile, liveVars, model, out >>

TrainClosePop ==
    /\ trainPc = "pop_open"
    /\ trainPc' = "pop_done"
    /\ popFile' = Stored(PopularityTrain(ratings, tieRank))
    /\ runOf' = [runOf EXCEPT !.popFile = runOf.train]
    /\ last' = None
    /\ UNCHANGED << dataVars, contentFile, liveVars, model, out >>

\* content.save(str(models_dir / "content_tfidf.joblib"))
TrainOpenContent ==
    /\ trainPc = "pop_done"
    /\ trainPc' = "content_open"
    /\ contentFile' = [state |-> "partial"]
    /\ last' = None
    /\ UNCHANGED << dataVars, popFile, liveVars, model, out, runOf >>

TrainCloseContent ==
    /\ trainPc = "content_open"
    /\ trainPc' = "idle"
    /\ contentFile' = Stored(ContentSave(ContentTrain(movies)))
    /\ runOf' = [runOf EXCEPT !.contentFile = runOf.train]
    /\ last' = None
    /\ UNCHANGED << dataVars, popFile, liveVars, model, out >>

\* ------------------------------------------------- serving/api: lifespan

\* Process start: the lifespan body up to its yield.  A restart is a new
\* process, so no worker thread of the old one survives it.
Lifespan ==
    /\ up' = TRUE
    /\ MOVIES_LOOKUP' = LoadMoviesLookup(movies)
    /\ CONTENT_MODEL' = None
    /\ IF popFile.state = "absent"
       THEN MODELS_LOADED' = FALSE /\ POP_MODEL' = None
       ELSE IF popFile.state = "ok"
            THEN MODELS_LOADED' = TRUE /\ POP_MODEL' = popFile.obj
            ELSE MODELS_LOADED' = FALSE /\ POP_MODEL' = None
    /\ pc' = [t \in Threads |-> "idle"]
    /\ req' = [t \in Threads |-> None]
    /\ contentLoads' = 0
    /\ runOf' = [runOf EXCEPT !.POP_MODEL = IF popFile.state = "ok" THEN runOf.popFile ELSE -1,
                              !.CONTENT_MODEL = -1]
    /\ last' = None
    /\ UNCHANGED << dataVars, popFile, contentFile, trainPc, model, out >>

\* ------------------------------------------------- serving/api: handlers

diskVars == << popFile, contentFile, trainPc >>

\* health reporting whether the artifact is on disk instead of the flag
HealthResponseFromDisk ==
    [path |-> "/health", status |-> 200, calls |-> {},
     body |-> [status |-> "ok", models_loaded |-> (popFile.state = "ok")]]

HealthResponse ==
    [path |-> "/health", status |-> 200, calls |-> {},
     body |-> [status |-> "ok", models_loaded |-> (MODELS_LOADED /\ POP_MODEL # None)]]

health ==
    /\ up
    /\ last' = HealthResponse
    /\ UNCHANGED << dataVars, diskVars, liveVars, model, out, runOf >>

\* manifest.json and metrics.json of the run directory as model_info finds
\* them: not there, there but not JSON (train is still writing, or the file is
\* damaged), or a JSON document.
DocStates == {"absent", "corrupt", "ok"}

\* The out[name] entries of model_info: no key when the file does not exist,
\* None when json.loads fails, the parsed document otherwise.
ModelInfoDoc(name, state) ==
    IF state = "absent" THEN << >>
    ELSE IF state = "ok" THEN name :> [json |-> name]
    ELSE name :> None

ModelInfoResponse(manifest, metrics) ==
    [path |-> "/v1/model-info", status |-> 200, calls |-> {},
     body |-> [models_loaded |-> (MODELS_LOADED /\ POP_MODEL # None)]
                @@ ModelInfoDoc("manifest", manifest) @@ ModelInfoDoc("metrics", metrics)]

model_info(manifest, metrics) ==
    /\ up
    /\ last' = ModelInfoResponse(manifest, metrics)
    /\ UNCHANGED << dataVars, diskVars, liveVars, model, out, runOf >>

\* The body of recommendations(): what it raises or returns.
RecommendationsResult(user_id, k, strategy) ==
    IF ~EnsureLoaded
    THEN HttpError(503, "Models not loaded. Train first.")
    ELSE IF strategy = "popularity"
    THEN LET items == RecommendationItems(PyList(PopularityRecommend(POP_MODEL, user_id, k)))
         IN  IF LoopRaises(items) # "" THEN Unhandled({"POP_MODEL.recommend"})
             ELSE [status |-> 200, calls |-> {"POP_MODEL.recommend"},
                   body |-> [user_id |-> user_id, k |-> k, strategy |-> strategy,
                             recommendations |-> EnrichItems(items)]]
    ELSE IF CONTENT_MODEL = None
    THEN HttpError(400, "Content model is not loaded yet. Use Similar Explorer first to lazy-load it.")
    ELSE LET items == RecommendationItems(PyList(ContentRecommend(CONTENT_MODEL, user_id, k)))
         IN  IF LoopRaises(items) # "" THEN Unhandled({"CONTENT_MODEL.recommend"})
             ELSE [status |-> 200, calls |-> {"CONTENT_MODEL.recommend"},
                   body |-> [user_id |-> user_id, k |-> k, strategy |-> strategy,
                             recommendations |-> EnrichItems(items)]]

recommendations(user_id, k, strategy) ==
    /\ up
    /\ last' = [path |-> "/v1/recommendations", user_id |-> user_id, k |-> k,
                strategy |-> strategy] @@ RecommendationsResult(user_id, k, strategy)
    /\ UNCHANGED << dataVars, diskVars, liveVars, model, out, runOf >>

SimilarRequest(movie_id, k) == [path |-> "/v1/similar-items", movie_id |-> movie_id, k |-> k]

\* similar_items without its _ensure_loaded() line
similar_items_begin_unchecked(t, movie_id, k) ==
    /\ up
    /\ pc[t] = "idle"
    /\ req' = [req EXCEPT ![t] = SimilarRequest(movie_id, k)]
    /\ pc' = [pc EXCEPT ![t] = IF CONTENT_MODEL = None THEN "exists" ELSE "call"]
    /\ last' = None
    /\ UNCHANGED << dataVars, diskVars, up, POP_MODEL, CONTENT_MODEL, MOVIES_LOOKUP,
                    MODELS_LOADED, contentLoads, model, out, runOf >>

\* similar_items, lines 263-266: _ensure_loaded and the CONTENT_MODEL is None test
similar_items_begin(t, movie_id, k) ==
    /\ up
    /\ pc[t] = "idle"
    /\ IF ~EnsureLoaded
       THEN /\ last' = SimilarRequest(movie_id, k)
                         @@ HttpError(503, "Models not loaded. Train first.")
            /\ UNCHANGED << pc, req >>
       ELSE /\ req' = [req EXCEPT ![t] = SimilarRequest(movie_id, k)]
            /\ pc' = [pc EXCEPT ![t] = IF CONTENT_MODEL = None THEN "exists" ELSE "call"]
            /\ last' = None
    /\ UNCHANGED << dataVars, diskVars, up, POP_MODEL, CONTENT_MODEL, MOVIES_LOOKUP,
                    MODELS_LOADED, contentLoads, model, out, runOf >>

\* similar_items without its content_path.exists() test
similar_items_exists_unchecked(t) ==
    /\ pc[t] = "exists"
    /\ pc' = [pc EXCEPT ![t] = "load"]
    /\ last' = None
    /\ UNCHANGED << dataVars, diskVars, up, POP_MODEL, CONTENT_MODEL, MOVIES_LOOKUP,
                    MODELS_LOADED, contentLoads, model, out, req, runOf >>

\* lines 268-271: content_path.exists()
similar_items_exists(t) ==
    /\ pc[t] = "exists"
    /\ IF contentFile.state = "absent"
       THEN /\ last' = req[t] @@ HttpError(400, "Content model is not available.")
            /\ pc' = [pc EXCEPT ![t] = "idle"]
            /\ req' = [req EXCEPT ![t] = None]
       ELSE /\ pc' = [pc EXCEPT ![t] = "load"]
            /\ last' = None
            /\ UNCHANGED req
    /\ UNCHANGED << dataVars, diskVars, up, POP_MODEL, CONTENT_MODEL, MOVIES_LOOKUP,
                    MODELS_LOADED, contentLoads, model, out, runOf >>

\* lines 272-279: CONTENT_MODEL = ContentTfidfModel.load(...), or the except branch
similar_items_load(t) ==
    /\ pc[t] = "load"
    /\ IF contentFile.state = "ok"
       THEN /\ CONTENT_MODEL' = ContentLoad(contentFile.obj)
            /\ contentLoads' = contentLoads + 1
            /\ runOf' = [runOf EXCEPT !.CONTENT_MODEL = runOf.contentFile]
            /\ pc' = [pc EXCEPT ![t] = "call"]
            /\ last' = None
            /\ UNCHANGED req
       ELSE /\ last' = req[t] @@ HttpError(500, "Content model could not be loaded")
            /\ pc' = [pc EXCEPT ![t] = "idle"]
            /\ req' = [req EXCEPT ![t] = None]
            /\ UNCHANGED << CONTENT_MODEL, contentLoads, runOf >>
    /\ UNCHANGED << dataVars, diskVars, up, POP_MODEL, MOVIES_LOOKUP, MODELS_LOADED,
                    model, out >>

\* lines 281-322: the model call, normalisation and enrichment
similar_items_call(t) ==
    /\ pc[t] = "call"
    /\ LET items == SimilarItems(PyList(ContentSimilarItems(CONTENT_MODEL,
                                                            req[t].movie_id, req[t].k)))
       IN  last' = req[t] @@
                    (IF LoopRaises(items) # "" THEN Unhandled({"CONTENT_MODEL.similar_items"})
                     ELSE [status |-> 200, calls |-> {"CONTENT_MODEL.similar_items"},
                           body |-> [movie_id |-> req[t].movie_id, k |-> req[t].k,
                                     similar_items |-> EnrichItems(items)]])
    /\ pc' = [pc EXCEPT ![t] = "idle"]
    /\ req' = [req EXCEPT ![t] = None]
    /\ UNCHANGED << dataVars, diskVars, up, POP_MODEL, CONTENT_MODEL, MOVIES_LOOKUP,
                    MODELS_LOADED, contentLoads, model, out, runOf >>

\* The routes under /v1/movies/ in the order api.py declares them; the router
\* hands a request to the first route whose path matches.
Routes == << [name |-> "get_movie", segment |-> "{movie_id}"],
             [name |-> "search_movies", segment |-> "search"] >>

RouteMatches(route, seg) == route.segment = "{movie_id}" \/ route.segment = seg

Router(seg) ==
    Routes[CHOOSE i \in DOMAIN Routes :
              /\ RouteMatches(Routes[i], seg)
              /\ \A j \in 1..(i - 1) : ~RouteMatches(Routes[j], seg)].name

\* Path segments a client sends, and int() of those that are integers
SegInt == ("1" :> 1) @@ ("2" :> 2) @@ ("3" :> 3) @@ ("4" :> 4)

\* get_movie, after FastAPI has converted the path parameter
GetMovieResult(movie_id) ==
    IF MovieRecord(movie_id).title = None /\ MovieRecord(movie_id).genres = None
    THEN HttpError(404, "Movie not found.")
    ELSE [status |-> 200, calls |-> {}, body |-> MovieRecord(movie_id)]

RECURSIVE SearchLoop(_, _, _)
\* the for loop of search_movies over MOVIES_LOOKUP.items()
SearchLoop(entries, query, limit) ==
    IF entries = << >> \/ limit <= 0 THEN << >>
    ELSE IF Contains(query, Casefold(Head(entries).title))
         THEN << [movie_id |-> Head(entries).movie_id,
                  title |-> CleanText(Str(Head(entries).title)),
                  genres |-> CleanText(Str(Head(entries).genres))] >>
              \o SearchLoop(Tail(entries), query, limit - 1)
         ELSE SearchLoop(Tail(entries), query, limit)

\* search_movies, with the Query(..., min_length=1) validation before it
SearchMoviesResult(q, limit) ==
    IF Len(q) < 1 THEN HttpError(422, "string_too_short")
    ELSE IF Casefold(Strip(q)) = << >> THEN HttpError(400, "Empty query.")
    ELSE [status |-> 200, calls |-> {},
          body |-> [q |-> q, limit |-> limit,
                    results |-> SearchLoop(MOVIES_LOOKUP, Casefold(Strip(q)), limit)]]

\* GET /v1/movies/<seg>?q=..&limit=..
MoviesResult(seg, q, limit) ==
    IF Router(seg) = "get_movie"
    THEN IF seg \in DOMAIN SegInt THEN GetMovieResult(SegInt[seg])
         ELSE HttpError(422, "int_parsing")
    ELSE SearchMoviesResult(q, limit)

Queries == { << >>, <<" ">>, <<"B">> }
Limits == {1, 2}

get_v1_movies(seg, q, limit) ==
    /\ up
    /\ last' = [path |-> "/v1/movies/", seg |-> seg, q |-> q, limit |-> limit]
                 @@ MoviesResult(seg, q, limit)
    /\ UNCHANGED << dataVars, diskVars, liveVars, model, out, runOf >>

\* ------------------------------------------------------ the whole system

\* The data set the pipeline trains on while the service is explored: three
\* rated movies, a three-row catalog (movie 3 has ratings but no catalog row,
\* movie 4 has a row whose title and genres cells are blank).
R(m, r) == [movieId |-> m, rating |-> r]

ServiceRatingTables == { << R(1, 5), R(2, 2), R(2, 5), R(3, 2) >> }

ServiceCatalogs ==
    { << [movieId |-> 2, title |-> <<"A", "b">>, genres |-> <<"x">>, tfidf |-> <<3, 4>>],
         [movieId |-> 1, title |-> <<"b", " ">>, genres |-> << >>, tfidf |-> <<5, 0>>],
         [movieId |-> 4, title |-> <<" ">>, genres |-> << >>, tfidf |-> <<0, 0>>] >> }

\* The service runs on one build; which tie order it has changes no response
\* status, so the whole system is explored with the stable one.
ServiceTieRanks == { [i \in 1..Cardinality(MovieIds) |-> i] }

Init ==
    /\ ratings \in ServiceRatingTables
    /\ movies \in ServiceCatalogs
    /\ tieRank \in ServiceTieRanks
    /\ popFile \in {Absent, Corrupt, Stored(PopularityTrain(ratings, tieRank))}
    /\ contentFile \in {Absent, Corrupt, Stored(ContentSave(ContentTrain(movies)))}
    /\ trainPc = "idle"
    /\ runOf = NoRuns
    /\ ServiceImported
    /\ model = None
    /\ out = None

Strategies == {"popularity", "content"}

\* Request parameters the clients of this model send: the smallest and the
\* largest k, a movie id in the catalog and one outside it.
ServiceKs == {1, MaxK}
SimilarSeeds == {1, 3}

\* Two /v1/similar-items requests can be in flight at once: one with any of
\* these parameters, and a concurrent one for seed 1 with k = 1.
SimilarParams(t) == IF t = "w1" THEN SimilarSeeds \X ServiceKs ELSE {<<1, 1>>}

\* GET /v1/movies/<seg> requests: an id lookup, or /search with its query
MoviesRequests ==
    [seg : DOMAIN SegInt, q : {<< >>}, limit : {1}]
        \cup [seg : {"search"}, q : Queries, limit : Limits]

Next ==
    \/ TrainOpenPop
    \/ TrainClosePop
    \/ TrainOpenContent
    \/ TrainCloseContent
    \/ Lifespan
    \/ health
    \/ \E manifest \in DocStates, metrics \in DocStates : model_info(manifest, metrics)
    \/ \E u \in UserIds, k \in ServiceKs, s \in Strategies : recommendations(u, k, s)
    \/ \E t \in Threads : \E p \in SimilarParams(t) : similar_items_begin(t, p[1], p[2])
    \/ \E t \in Threads : similar_items_exists(t)
    \/ \E t \in Threads : similar_items_load(t)
    \/ \E t \in Threads : similar_items_call(t)
    \/ \E r \in MoviesRequests : get_v1_movies(r.seg, r.q, r.limit)

Spec == Init /\ [][Next]_vars

\* ------------------------------------------- the popularity scorer alone

RatingRows == [movieId : MovieIds, rating : RatingValues]
RatingTables == UNION {[1..n -> RatingRows] : n \in 0..MaxRatings}
TieRanks == Perms(Cardinality(MovieIds))

InitPop ==
    /\ ratings \in RatingTables
    /\ movies = << >>
    /\ tieRank \in TieRanks
    /\ popFile = Absent /\ contentFile = Absent /\ trainPc = "idle"
    /\ runOf = NoRuns
    /\ ServiceImported
    /\ model = None
    /\ out = None

PopTrain ==
    /\ model' = PopularityTrain(ratings, tieRank)
    /\ out' = None
    /\ UNCHANGED << ratings, movies, tieRank, svcVars >>

PopRecommend(user_id, k) ==
    /\ model # None
    /\ out' = [call |-> "recommend", user_id |-> user_id, k |-> k,
               result |-> PopularityRecommend(model, user_id, k)]
    /\ UNCHANGED << ratings, movies, tieRank, svcVars, model >>

NextPop ==
    \/ PopTrain
    \/ \E u \in UserIds, k \in Ks : PopRecommend(u, k)

SpecPop == InitPop /\ [][NextPop]_vars

\* ------------------------------------------- the content engine alone

RECURSIVE SeqsUpTo(_, _)
SeqsUpTo(S, n) == IF n = 0 THEN {<< >>} ELSE SeqsUpTo(S, n - 1) \cup [1..n -> S]

\* Content models as train builds them from a catalog: one row per movie,
\* no movieId twice.
ContentModels ==
    { ContentModel(ids, m) :
        ids \in {s \in SeqsUpTo(MovieIds, Cardinality(MovieIds)) :
                    Len(s) >= 1 /\ \A i, j \in DOMAIN s : s[i] = s[j] => i = j},
        m \in SeqsUpTo(UnitRows, Cardinality(MovieIds)) }

InitContent ==
    /\ ratings = << >>
    /\ movies = << >>
    /\ tieRank \in TieRanks
    /\ popFile = Absent /\ contentFile = Absent /\ trainPc = "idle"
    /\ runOf = NoRuns
    /\ ServiceImported
    /\ model \in {c \in ContentModels : Len(c.movie_ids) = Len(c.tfidf_matrix)}
    /\ out = None

ContentSimilar(movie_id, k) ==
    /\ out' = [call |-> "similar_items", movie_id |-> movie_id, k |-> k,
               result |-> ContentSimilarItems(model, movie_id, k)]
    /\ UNCHANGED << ratings, movies, tieRank, svcVars, model >>

ContentRecommendCall(user_id, k) ==
    /\ out' = [call |-> "recommend", user_id |-> user_id, k |-> k,
               result |-> ContentRecommend(model, user_id, k)]
    /\ UNCHANGED << ratings, movies, tieRank, svcVars, model >>

NextContent ==
    \/ \E m \in MovieIds, k \in Ks : ContentSimilar(m, k)
    \/ \E u \in UserIds, k \in Ks : ContentRecommendCall(u, k)

SpecContent == InitContent /\ [][NextContent]_vars

\* ------------------------------------------- the result normalisation alone

\* longest model output normalised
MaxItems == 2

One == FromInt(1)

\* Entries a duck-typed model may hand back: Rec objects, dicts under each of
\* the id keys (ints, numeric and non-numeric strings, with and without a
\* score), tuples, a bare id, None.
NormItems ==
    {Rec(m, One) : m \in {2, 0, -1}}
    \cup {PyDict("movie_id" :> v) :
            v \in {PyInt(2), PyInt(0), PyInt(-1), PyStr("2"), PyStr("x")}}
    \cup {PyDict((k :> PyInt(1)) @@ ("score" :> PyFloat(One))) :
            k \in {"movie_id", "movieId", "id", "item"}}
    \cup {PyDict(("id" :> PyInt(0)) @@ ("item" :> PyInt(2))),
          PyDict("score" :> PyFloat(One)),
          PyDict(("movie_id" :> PyInt(2)) @@ ("score" :> None)),
          PyDict(("movie_id" :> PyInt(2)) @@ ("score" :> PyStr("x")))}
    \cup {PyTuple(<<PyInt(2), PyFloat(One)>>), PyTuple(<<PyInt(2)>>), PyTuple(<< >>),
          PyTuple(<<PyInt(0), PyFloat(One)>>), PyTuple(<<PyInt(-1), PyFloat(One)>>),
          PyTuple(<<PyStr("x"), PyFloat(One)>>), PyTuple(<<None, PyFloat(One)>>),
          PyTuple(<<PyInt(2), None>>)}
    \cup {PyInt(2), None}

\* What a model call may return: a list, a dict holding the list under one of
\* the keys the handlers look for, or something that is neither.
RawOutputs ==
    {PyList(items) : items \in SeqsUpTo(NormItems, MaxItems)}
    \cup {PyDict(key :> PyList(items)) :
            key \in {"recommendations", "items"}, items \in SeqsUpTo(NormItems, 1)}
    \cup {PyInt(2)}

InitNorm ==
    /\ ratings = << >>
    /\ movies = << >>
    /\ tieRank \in ServiceTieRanks
    /\ popFile = Absent /\ contentFile = Absent /\ trainPc = "idle"
    /\ runOf = NoRuns
    /\ ServiceImported
    /\ model \in RawOutputs
    /\ out = None

\* recommendations(), from `items = _normalize_list(raw, "recommendations")` on
NormalizeRecommendations ==
    /\ out' = [call |-> "normalize_recommendations"] @@
                (LET items == RecommendationItems(model)
                 IN  IF LoopRaises(items) # "" THEN Unhandled({})
                     ELSE [status |-> 200, calls |-> {},
                           body |-> [entries |-> EnrichItems(items)]])
    /\ UNCHANGED << ratings, movies, tieRank, svcVars, model >>

\* similar_items(), from `items = (_normalize_list(raw, "similar_items") or ...` on
NormalizeSimilar ==
    /\ out' = [call |-> "normalize_similar_items"] @@
                (LET items == SimilarItems(model)
                 IN  IF LoopRaises(items) # "" THEN Unhandled({})
                     ELSE [status |-> 200, calls |-> {},
                           body |-> [entries |-> EnrichItems(items)]])
    /\ UNCHANGED << ratings, movies, tieRank, svcVars, model >>

NextNorm ==
    \/ NormalizeRecommendations
    \/ NormalizeSimilar

SpecNorm == InitNorm /\ [][NextNorm]_vars

\* ------------------------------------------------------ data/preprocess

\* a missing cell of a float64 or object column
NaN == [py |-> "nan"]

IsNa(c) == c = NaN \/ c = None

\* Series.astype("int64") on one cell: a float is truncated, a missing value
\* cannot be cast.
AsInt64(c) == IF IsNa(c) THEN Raises("IntCastingNaNError") ELSE PyIntOf(c)

\* Series.astype("float64") on one cell
AsFloat64(c) == IF IsNa(c) THEN Returns(NaN) ELSE PyFloatOf(c)

\* Series.astype(str) on one cell of an object column: str(value)
AsStr(c) ==
    IF c = NaN THEN PyStr("nan") ELSE IF c = None THEN PyStr("None") ELSE c

\* fillna on a cell, as a slip would have it: the cell is left as it is
FillNaKept(c, value) == c

\* Series.fillna(value) on one cell
FillNa(c, value) == IF IsNa(c) THEN value ELSE c

PreprocessedData(rs, mv) == [raised |-> FALSE, ratings |-> rs, movies |-> mv]

\* preprocess: the astype calls raise as soon as one cell cannot be cast
preprocess(rs, mv) ==
    IF \E i \in DOMAIN rs :
          \/ AsInt64(rs[i].userId).raised \/ AsInt64(rs[i].movieId).raised
          \/ AsFloat64(rs[i].rating).raised \/ AsInt64(rs[i].timestamp).raised
    THEN Raises("IntCastingNaNError")
    ELSE IF \E i \in DOMAIN mv : AsInt64(mv[i].movieId).raised
    THEN Raises("IntCastingNaNError")
    ELSE PreprocessedData(
            [i \in DOMAIN rs |->
                [userId |-> PyInt(AsInt64(rs[i].userId).v),
                 movieId |-> PyInt(AsInt64(rs[i].movieId).v),
                 rating |-> PyFloat(AsFloat64(rs[i].rating).v),
                 timestamp |-> PyInt(AsInt64(rs[i].timestamp).v)]],
            [i \in DOMAIN mv |->
                [movieId |-> PyInt(AsInt64(mv[i].movieId).v),
                 title |-> AsStr(mv[i].title),
                 genres |-> AsStr(FillNa(mv[i].genres, PyStr("")))]])

\* longest raw table preprocessed
MaxRows == 2

\* A numeric column as read_csv types it: int64, or float64 when the file
\* writes the numbers with a decimal point.
NumDtypes == {"int64", "float64"}
Num(dtype, n) == IF dtype = "int64" THEN PyInt(n) ELSE PyFloat(FromInt(n))

\* Raw tables as load_raw_movielens returns them: ids present in every row,
\* each id column of one dtype; title and genres cells are text or missing.
RawRatingTables ==
    { [i \in DOMAIN users |->
          [userId |-> Num(ut, users[i]), movieId |-> Num(mt, 1),
           rating |-> PyFloat(FromInt(4)), timestamp |-> PyInt(1)]] :
        users \in SeqsUpTo(UserIds, MaxRows), ut \in NumDtypes, mt \in NumDtypes }

RawMovieTables ==
    { [i \in DOMAIN cells |->
          [movieId |-> Num(mt, i), title |-> cells[i].title, genres |-> cells[i].genres]] :
        cells \in SeqsUpTo([title : {PyStr("A"), NaN},
                            genres : {PyStr("X|Y"), PyStr(""), NaN, None}], MaxRows),
        mt \in NumDtypes }

InitPrep ==
    /\ ratings \in RawRatingTables
    /\ movies \in RawMovieTables
    /\ tieRank \in ServiceTieRanks
    /\ popFile = Absent /\ contentFile = Absent /\ trainPc = "idle"
    /\ runOf = NoRuns
    /\ ServiceImported
    /\ model = None
    /\ out = None

PreprocessCall ==
    /\ out' = [call |-> "preprocess", result |-> preprocess(ratings, movies)]
    /\ UNCHANGED << ratings, movies, tieRank, svcVars, model >>

NextPrep == PreprocessCall

SpecPrep == InitPrep /\ [][NextPrep]_vars

\* ------------------------------------------------------------------ claims

PopLoaded == MODELS_LOADED /\ POP_MODEL # None

\* C1: with the popularity model loaded and the content artifact on disk, a
\* /v1/recommendations request with strategy=content loads the content model
\* if need be and succeeds, whether or not /v1/similar-items ran before.
C1_ContentRecsLoadAndSucceed ==
    [][\A u \in UserIds, k \in ServiceKs :
          (recommendations(u, k, "content") /\ PopLoaded /\ contentFile.state = "ok")
              => last'.status = 200]_vars

\* C2: in one service lifetime the content artifact is loaded and assigned at
\* most once, however the first requests that need it interleave.
C2_ContentLoadedAtMostOnce == contentLoads <= 1

\* C4: while the popularity model is not loaded, every /v1/recommendations and
\* /v1/similar-items request is answered 503, with no model call and no load
\* of the content artifact; no similar-items request gets past its first line.
C4_NotLoadedIs503 ==
    (up /\ (~MODELS_LOADED \/ POP_MODEL = None)) =>
        /\ \A t \in Threads : pc[t] = "idle"
        /\ CONTENT_MODEL = None /\ contentLoads = 0
        /\ (last # None /\ last.path \in {"/v1/recommendations", "/v1/similar-items"})
              => (last.status = 503 /\ last.calls = {})

C4_Witness ==
    /\ up /\ ~MODELS_LOADED /\ POP_MODEL = None
    /\ contentFile.state = "ok"
    /\ last # None /\ last.path = "/v1/similar-items" /\ last.status = 503

\* C5: with the popularity model loaded and the content artifact absent, a
\* request that needs content is answered 400 and changes nothing (popularity
\* model, readiness flag, content model still unset); popularity requests keep
\* succeeding and /health keeps reporting models_loaded = true.
C5_ContentAbsentIs400 ==
    /\ [](PopLoaded =>
            /\ contentFile.state = "absent" =>
                  /\ CONTENT_MODEL = None
                  /\ (last # None /\ last.path = "/v1/similar-items") => last.status = 400
                  /\ (/\ last # None /\ last.path = "/v1/recommendations"
                      /\ last.strategy = "content") => last.status = 400
            /\ (/\ last # None /\ last.path = "/v1/recommendations"
                /\ last.strategy = "popularity") => last.status = 200
            /\ (last # None /\ last.path = "/health") => last.body.models_loaded)
    /\ [][(PopLoaded /\ ~Lifespan) => (MODELS_LOADED' /\ POP_MODEL' = POP_MODEL)]_vars

C5_Witness ==
    /\ PopLoaded /\ contentFile.state = "absent" /\ CONTENT_MODEL = None
    /\ last # None /\ last.path = "/v1/similar-items" /\ last.status = 400

\* C6: a content request that finds the content artifact missing, or present
\* but unloadable, is answered 400 on both endpoints; never 500.
C6_ContentFailureIs400 ==
    [][(PopLoaded /\ CONTENT_MODEL = None /\ contentFile.state # "ok") =>
          \A t \in Threads, u \in UserIds, k \in ServiceKs :
              (/\ \/ recommendations(u, k, "content")
                  \/ similar_items_exists(t)
                  \/ similar_items_load(t)
               /\ last' # None)
                  => last'.status = 400]_vars

\* C9: the recommendations list of /v1/recommendations does not depend on
\* user_id: any other valid user id gets the same items, scores and order
\* for the same k, strategy and service state.
C9_UserIdIrrelevant ==
    (last # None /\ last.path = "/v1/recommendations" /\ last.status = 200) =>
        \A u \in UserIds :
            /\ RecommendationsResult(u, last.k, last.strategy).status = 200
            /\ RecommendationsResult(u, last.k, last.strategy).body.recommendations
                  = last.body.recommendations

C9_Witness ==
    /\ last # None /\ last.path = "/v1/recommendations" /\ last.status = 200
    /\ last.strategy = "content" /\ last.user_id = 2
    /\ Len(last.body.recommendations) >= 2

\* C10: GET /v1/movies/search with q = "" is answered 400.
C10_EmptySearchIs400 ==
    (last # None /\ last.path = "/v1/movies/" /\ last.seg = "search" /\ last.q = << >>)
        => last.status = 400

\* C3: similar_items(seed, k) never returns the seed itself, for every model,
\* every seed in the model and every k >= 1 (k at or above the number of
\* items included); for a seed absent from the model it returns the empty list.
C3_SimilarNeverReturnsSeed ==
    (out # None /\ out.call = "similar_items") =>
        IF out.movie_id \in Range(model.movie_ids)
        THEN \A e \in Range(out.result) : e.movie_id # out.movie_id
        ELSE out.result = << >>

\* C7: the ranked list train produces is sorted by descending score, equal
\* scores by ascending item id, and training again on the same ratings gives
\* the identical list.
C7_RankedSortedTiesById ==
    model # None =>
        /\ \A i, j \in DOMAIN model.ranked : i < j =>
              \/ RLess(model.ranked[j].score, model.ranked[i].score)
              \/ /\ model.ranked[i].score = model.ranked[j].score
                 /\ model.ranked[i].movie_id < model.ranked[j].movie_id
        /\ PopularityTrain(ratings, tieRank) = model

\* C8: recommend(k) is exactly the first min(k, size) entries of the ranked
\* list, in ranked order (no padding, no error for k above the size), and the
\* ranked list holds every item with at least one rating exactly once and no
\* item without ratings.
C8_RecommendIsPrefix ==
    (out # None /\ out.call = "recommend") =>
        /\ Len(out.result) = (IF out.k < Len(model.ranked) THEN out.k ELSE Len(model.ranked))
        /\ \A i \in DOMAIN out.result : out.result[i] = model.ranked[i]
        /\ \A m \in MovieIds :
              Cardinality({i \in DOMAIN model.ranked : model.ranked[i].movie_id = m})
                = (IF \E i \in DOMAIN ratings : ratings[i].movieId = m THEN 1 ELSE 0)

C8_Witness ==
    /\ out # None /\ out.call = "recommend"
    /\ Len(model.ranked) = 2
    /\ out.k > Len(model.ranked)
    /\ Len(out.result) = 2

\* C11: GET /v1/movies/search with a non-empty q and a limit in range is
\* answered by the search operation, 200, and its results are exactly the
\* first `limit` lookup entries, in lookup order, whose title contains q
\* case-insensitively.
C11_SearchAnswersMatches ==
    (/\ last # None /\ last.path = "/v1/movies/" /\ last.seg = "search"
     /\ Strip(last.q) # << >>) =>
        /\ last.status = 200
        /\ LET hit == {i \in DOMAIN MOVIES_LOOKUP :
                          Contains(Casefold(Strip(last.q)), Casefold(MOVIES_LOOKUP[i].title))}
               want == Prefix(SelectSeqBy(MOVIES_LOOKUP, hit), last.limit)
           IN  [i \in DOMAIN last.body.results |-> last.body.results[i].movie_id]
                  = [i \in DOMAIN want |-> want[i].movie_id]

\* C12: GET /v1/movies/{id} is answered 404 when the id is absent from the
\* lookup, and with the record {movie_id, title, genres} for every id that is
\* present in the lookup.
C12_GetMovieByLookup ==
    (last # None /\ last.path = "/v1/movies/" /\ last.seg \in DOMAIN SegInt) =>
        IF \E i \in DOMAIN MOVIES_LOOKUP : MOVIES_LOOKUP[i].movie_id = SegInt[last.seg]
        THEN last.status = 200 /\ last.body = MovieRecord(SegInt[last.seg])
        ELSE last.status = 404

\* C13: when the popularity artifact was absent or undecodable at startup the
\* service still starts and stays not-loaded for the rest of its lifetime:
\* every /health and /v1/model-info request succeeds and reports
\* models_loaded = false, and no request makes it true (a training run that
\* completes meanwhile included); only a restart leaves the state.
C13_NotLoadedIsTerminal ==
    /\ []((up /\ ~PopLoaded) =>
            ((last # None /\ last.path \in {"/health", "/v1/model-info"})
                => (last.status = 200 /\ ~last.body.models_loaded)))
    /\ [][/\ (Lifespan /\ popFile.state # "ok") => (up' /\ ~MODELS_LOADED' /\ POP_MODEL' = None)
          /\ (up /\ ~PopLoaded /\ ~Lifespan) => (up' /\ ~MODELS_LOADED' /\ POP_MODEL' = None)]_vars

C13_Witness ==
    /\ up /\ ~PopLoaded
    /\ popFile.state = "ok"
    /\ last # None /\ last.path = "/v1/model-info"
    /\ last.status = 200 /\ ~last.body.models_loaded

\* C14: artifacts are saved atomically per file: no load of an artifact (the
\* eager popularity load at startup, the lazy content load) ever reads a
\* partially written file.
C14_LoaderNeverSeesPartialFile ==
    [][/\ Lifespan => popFile.state # "partial"
       /\ \A t \in Threads : similar_items_load(t) => contentFile.state # "partial"]_vars

\* C15: the popularity model and the content model a running service holds
\* come from the same training run at every moment, also when training runs
\* again between the eager popularity load and the lazy content load.
C15_ModelsFromSameRun ==
    (up /\ POP_MODEL # None /\ CONTENT_MODEL # None)
        => runOf.POP_MODEL = runOf.CONTENT_MODEL

\* C20: readiness only moves forward within one lifetime: a loaded content
\* model implies a loaded popularity model, and after startup no step of any
\* request replaces, unsets or mutates the popularity model, a loaded content
\* model or the catalog lookup.
C20_ReadinessOnlyForward ==
    /\ [](CONTENT_MODEL # None => PopLoaded)
    /\ [][(up /\ ~Lifespan) =>
            /\ MOVIES_LOOKUP' = MOVIES_LOOKUP
            /\ POP_MODEL # None =>
                  /\ POP_MODEL' = POP_MODEL /\ MODELS_LOADED' = MODELS_LOADED
                  /\ runOf'.POP_MODEL = runOf.POP_MODEL
            /\ CONTENT_MODEL # None =>
                  /\ CONTENT_MODEL' = CONTENT_MODEL
                  /\ runOf'.CONTENT_MODEL = runOf.CONTENT_MODEL]_vars

\* The positive item id an entry carries (0 if it carries none) and its score
\* (None if it has none), read off the entry's shape.
PositiveOf(v) ==
    IF v = None THEN 0
    ELSE IF v.py = "int" THEN (IF v.int >= 1 THEN v.int ELSE 0)
    ELSE IF v.py = "str" /\ v.str \in DOMAIN IntText THEN IntText[v.str]
    ELSE 0

EntryId(item) ==
    IF IsPy(item, "dict")
    THEN LET ids == {PositiveOf(item.d[key]) :
                        key \in DOMAIN item.d \cap {"movie_id", "movieId", "id", "item"}} \ {0}
         IN  IF ids = {} THEN 0 ELSE CHOOSE m \in ids : TRUE
    ELSE IF IsPy(item, "tuple")
    THEN IF Len(item.elems) >= 1 THEN PositiveOf(item.elems[1]) ELSE 0
    ELSE IF "movie_id" \in DOMAIN item THEN (IF item.movie_id >= 1 THEN item.movie_id ELSE 0)
    ELSE 0

EntryScore(item) ==
    IF IsPy(item, "dict")
    THEN IF "score" \in DOMAIN item.d /\ IsPy(item.d["score"], "float")
         THEN item.d["score"].float ELSE None
    ELSE IF IsPy(item, "tuple")
    THEN IF Len(item.elems) >= 2 /\ IsPy(item.elems[2], "float")
         THEN item.elems[2].float ELSE None
    ELSE IF "score" \in DOMAIN item THEN item.score
    ELSE None

\* C16: normalisation keeps exactly the entries of the model output that carry
\* a resolvable positive item id, in their order and with their scores; every
\* response entry has movie_id >= 1; an entry without a positive id (missing,
\* zero, negative, unresolvable shape) is dropped and causes no error.
C16_NormalizationKeepsPositiveIds ==
    (out # None /\ out.call \in {"normalize_recommendations", "normalize_similar_items"}) =>
        LET items == IF out.call = "normalize_recommendations"
                     THEN RecommendationItems(model) ELSE SimilarItems(model)
            kept == SelectSeqBy(items, {i \in DOMAIN items : EntryId(items[i]) >= 1})
        IN  /\ out.status = 200
            /\ Len(out.body.entries) = Len(kept)
            /\ \A i \in DOMAIN kept :
                  /\ out.body.entries[i].movie_id = EntryId(kept[i])
                  /\ out.body.entries[i].movie_id >= 1
                  /\ IF EntryScore(kept[i]) = None
                     THEN "score" \notin DOMAIN out.body.entries[i]
                     ELSE /\ "score" \in DOMAIN out.body.entries[i]
                          /\ out.body.entries[i].score = EntryScore(kept[i])

RLeq(a, b) == a.num * b.den <= b.num * a.den

Between(x, a, b) == (RLeq(a, x) /\ RLeq(x, b)) \/ (RLeq(b, x) /\ RLeq(x, a))

\* C17: the score (n_i*m_i + 50*mu) / (n_i + 50) of every ranked item lies
\* between the item's mean m_i and the global mean mu, inclusive; and for fixed
\* m_i and mu it starts at mu (n_i = 0) and moves monotonically toward m_i as
\* n_i grows.
C17_ScoreBetweenMeanAndGlobal ==
    model # None =>
        LET grouped == GroupByMovie(ratings)
            mu == GlobalMean(ratings)
        IN  /\ \A e \in Range(model.ranked) : \E g \in Range(grouped) :
                  /\ g.movieId = e.movie_id
                  /\ e.score = ShrunkScore(g.count, g.mean, mu)
                  /\ Between(e.score, g.mean, mu)
            /\ \A g \in Range(grouped) :
                  /\ ShrunkScore(0, g.mean, mu) = mu
                  /\ \A n \in 0..MaxRatings :
                        Between(ShrunkScore(n + 1, g.mean, mu),
                                ShrunkScore(n, g.mean, mu), g.mean)

C17_Witness ==
    /\ model # None
    /\ \E e \in Range(model.ranked) : \E g \in Range(GroupByMovie(ratings)) :
          /\ g.movieId = e.movie_id /\ g.count >= 2
          /\ RLess(g.mean, e.score) /\ RLess(e.score, GlobalMean(ratings))

\* C18: similar_items(seed, k) returns the k rows other than the seed with the
\* highest cosine similarity to it, in descending similarity, equal
\* similarities in ascending item id, whatever the row order of the catalog.
\* Stated for k below the number of rows, where k such rows exist (C3 covers
\* the larger k).
C18_SimilarTopKTiesById ==
    (/\ out # None /\ out.call = "similar_items"
     /\ out.movie_id \in Range(model.movie_ids)
     /\ out.k < Len(model.movie_ids)) =>
        LET n == Len(model.movie_ids)
            i == CHOOSE p \in 1..n : model.movie_ids[p] = out.movie_id
            others == (1..n) \ {i}
            sim(j) == Cosine(model.tfidf_matrix[i], model.tfidf_matrix[j])
            Before(a, b) ==
                \/ RLess(sim(b), sim(a))
                \/ sim(a) = sim(b) /\ model.movie_ids[a] < model.movie_ids[b]
            place(a) == Cardinality({b \in others : Before(b, a)}) + 1
        IN  /\ Len(out.result) = out.k
            /\ \A r \in DOMAIN out.result : \E a \in others :
                  /\ place(a) = r
                  /\ out.result[r] = Rec(model.movie_ids[a], sim(a))

\* the number a numeric cell holds
NumberOf(c) == IF c.py = "int" THEN FromInt(c.int) ELSE c.float

ResponseEntries ==
    IF last.path = "/v1/recommendations" THEN last.body.recommendations
    ELSE last.body.similar_items

NoIdTwice(ids) == \A i, j \in DOMAIN ids : ids[i] = ids[j] => i = j

\* C21: every successful /v1/recommendations and /v1/similar-items response
\* has at most k entries and no item id twice, provided the item ids of the
\* loaded models are unique.
C21_AtMostKNoDuplicates ==
    (/\ last # None /\ last.path \in {"/v1/recommendations", "/v1/similar-items"}
     /\ last.status = 200
     /\ NoIdTwice([i \in DOMAIN POP_MODEL.ranked |-> POP_MODEL.ranked[i].movie_id])
     /\ CONTENT_MODEL # None => NoIdTwice(CONTENT_MODEL.movie_ids)) =>
        /\ Len(ResponseEntries) <= last.k
        /\ NoIdTwice([i \in DOMAIN ResponseEntries |-> ResponseEntries[i].movie_id])

C21_Witness ==
    /\ last # None /\ last.path = "/v1/similar-items" /\ last.status = 200
    /\ last.k = 1 /\ Len(CONTENT_MODEL.movie_ids) = 3
    /\ Len(last.body.similar_items) = 1

====
